---- MODULE Spec2Model ----
(***************************************************************************)
(* Notes marketplace backend (src/app.py): the Users, Notes and            *)
(* Transactions tables, the upload directory, and the nine request         *)
(* handlers.  Spec runs the handlers one request at a time.  SpecC runs    *)
(* the handlers that write on concurrent server threads, with register and *)
(* purchase_note taking one step per store statement.                      *)
(***************************************************************************)
EXTENDS Integers, Sequences, FiniteSets, TLC

\* ------------------------------------------------------------------ bounds
\* rows the store holds, over its three tables
MaxRows == 4

\* ------------------------------------------------------------------ inputs
Emails == {"s@x.com", "b@x.com"}
Passwords == {"pw", "bad"}

\* (email, role) pairs the clients register with
RegKinds == {<<"s@x.com", "seller">>, <<"b@x.com", "buyer">>}

\* ids the clients send as seller_id / buyer_id
UserIdInputs == {1, 2}

\* ids the clients send as note_id
NoteIdInputs == {1, 2}

\* file names as sequences of characters, and file contents
UploadKinds == {[filename |-> <<"a">>, content |-> "x", price |-> 5],
                [filename |-> <<".", ".", "/", "a">>, content |-> "y", price |-> 7],
                [filename |-> <<"b">>, content |-> "y", price |-> 5],
                [filename |-> <<".", ".">>, content |-> "y", price |-> 7],
                [filename |-> <<>>, content |-> "x", price |-> 5]}
DownloadNames == {<<"a">>, <<"b">>}

VARIABLES Users, Notes, Transactions, Files, uploaded, resp, thr

vars == <<Users, Notes, Transactions, Files, uploaded, resp, thr>>

\* ------------------------------------------------------------- constants
\* UPLOAD_FOLDER = 'uploads', as a sequence of characters
UPLOAD_FOLDER == <<"u", "p", "l", "o", "a", "d", "s">>

\* ----------------------------------------------------------------- helpers
\* all(key in data for key in keys)
HasAll(data, keys) == keys \subseteq DOMAIN data

\* rv[0] if rv else None
NoneRow == [none |-> TRUE]
One(rv) == IF Len(rv) > 0 THEN rv[1] ELSE NoneRow

\* --- werkzeug.security
generate_password_hash(password) == <<"pbkdf2:sha256", password>>
check_password_hash(pwhash, password) == pwhash[1] = "pbkdf2:sha256" /\ pwhash[2] = password

\* --- werkzeug.utils.secure_filename, on character sequences
AllowedChars == {"a", "b", "_", ".", "-"}

ReplaceSep(s) == [i \in 1..Len(s) |-> IF s[i] = "/" THEN " " ELSE s[i]]

RECURSIVE LStrip(_, _)
LStrip(s, cs) == IF Len(s) > 0 /\ s[1] \in cs THEN LStrip(Tail(s), cs) ELSE s

RECURSIVE RStrip(_, _)
RStrip(s, cs) ==
    IF Len(s) > 0 /\ s[Len(s)] \in cs THEN RStrip(SubSeq(s, 1, Len(s) - 1), cs) ELSE s

Strip(s, cs) == RStrip(LStrip(s, cs), cs)

\* "_".join(s.split()): runs of blanks become one "_", outer blanks vanish
RECURSIVE JoinWords(_)
JoinWords(s) ==
    IF Len(s) = 0 THEN <<>>
    ELSE IF s[1] = " "
         THEN (IF Len(LStrip(s, {" "})) = 0 THEN <<>>
               ELSE <<"_">> \o JoinWords(LStrip(s, {" "})))
         ELSE <<s[1]>> \o JoinWords(Tail(s))

IsAllowed(c) == c \in AllowedChars

secure_filename(filename) ==
    Strip(SelectSeq(JoinWords(Strip(ReplaceSep(filename), {" "})), IsAllowed), {".", "_"})

\* --- os.path
os_path_join(dir, name) == dir \o <<"/">> \o name

RECURSIVE os_path_basename(_)
os_path_basename(p) ==
    IF Len(p) = 0 THEN <<>>
    ELSE IF p[Len(p)] = "/" THEN <<>>
    ELSE os_path_basename(SubSeq(p, 1, Len(p) - 1)) \o <<p[Len(p)]>>

\* ------------------------------------------------------------ responses
\* the last reply sent: the handler, the request fields the claims read, the
\* HTTP status and the payload
Response(op, req, code, body) == [op |-> op, req |-> req, code |-> code, body |-> body]

Fields(data, keys) == [k \in keys \cap DOMAIN data |-> data[k]]

\* ------------------------------------------------------------- the store
\* SELECT * FROM Users WHERE email = ?
UsersByEmail(users, email) == LET P(u) == u.email = email IN SelectSeq(users, P)

\* fault variant: the seller lookup without the role filter
SellersById_AnyRole(users, id) ==
    LET P(u) == u.user_id = id IN SelectSeq(users, P)

\* SELECT * FROM Users WHERE user_id = ? AND role = 'seller'
SellersById(users, id) ==
    LET P(u) == u.user_id = id /\ u.role = "seller" IN SelectSeq(users, P)

\* INSERT INTO Users (name, email, password, role)
InsertUser(users, name, email, pwhash, role) ==
    Append(users, [user_id |-> Len(users) + 1, name |-> name, email |-> email,
                   password |-> pwhash, role |-> role])

\* fault variant: a note inserted as already approved
InsertNote_Approved(notes, title, subject, description, price, seller_id, file_link) ==
    Append(notes, [note_id |-> Len(notes) + 1, title |-> title, subject |-> subject,
                   description |-> description, price |-> price,
                   seller_id |-> seller_id, file_link |-> file_link,
                   status |-> "approved"])

\* INSERT INTO Notes (..., status) VALUES (..., 'pending')
InsertNote(notes, title, subject, description, price, seller_id, file_link) ==
    Append(notes, [note_id |-> Len(notes) + 1, title |-> title, subject |-> subject,
                   description |-> description, price |-> price,
                   seller_id |-> seller_id, file_link |-> file_link,
                   status |-> "pending"])

\* SELECT note_id, ..., price, seller_id FROM Notes WHERE status = 'approved'
ApprovedNotes(notes) ==
    LET P(n) == n.status = "approved"
        sel == SelectSeq(notes, P)
    IN [i \in 1..Len(sel) |->
          [note_id |-> sel[i].note_id, title |-> sel[i].title, subject |-> sel[i].subject,
           description |-> sel[i].description, price |-> sel[i].price,
           seller_id |-> sel[i].seller_id]]

\* SELECT note_id, title, subject, seller_id FROM Notes WHERE status = 'pending'
PendingNotes(notes) ==
    LET P(n) == n.status = "pending"
        sel == SelectSeq(notes, P)
    IN [i \in 1..Len(sel) |->
          [note_id |-> sel[i].note_id, title |-> sel[i].title, subject |-> sel[i].subject,
           seller_id |-> sel[i].seller_id]]

\* fault variant: the availability query without the status filter
NoteToBuy_AnyStatus(notes, id) ==
    LET P(n) == n.note_id = id
        sel == SelectSeq(notes, P)
    IN [i \in 1..Len(sel) |-> [price |-> sel[i].price, file_link |-> sel[i].file_link]]

\* SELECT price, file_link FROM Notes WHERE note_id = ? AND status = 'approved'
NoteToBuy(notes, id) ==
    LET P(n) == n.note_id = id /\ n.status = "approved"
        sel == SelectSeq(notes, P)
    IN [i \in 1..Len(sel) |-> [price |-> sel[i].price, file_link |-> sel[i].file_link]]

\* INSERT INTO Transactions (buyer_id, note_id, amount)
InsertTransaction(txns, buyer_id, note_id, amount) ==
    Append(txns, [buyer_id |-> buyer_id, note_id |-> note_id, amount |-> amount])

\* fault variant: an upsert, which adds a row when the id matches none
UpdateStatus_Upsert(notes, id, status) ==
    IF \E i \in 1..Len(notes) : notes[i].note_id = id
    THEN [i \in 1..Len(notes) |->
            IF notes[i].note_id = id THEN [notes[i] EXCEPT !.status = status] ELSE notes[i]]
    ELSE Append(notes, [note_id |-> id, title |-> "", subject |-> "", description |-> "",
                        price |-> 0, seller_id |-> 0, file_link |-> <<>>,
                        status |-> status])

\* fault variant: the UPDATE without its WHERE clause
UpdateStatus_AllRows(notes, id, status) ==
    [i \in 1..Len(notes) |-> [notes[i] EXCEPT !.status = status]]

\* UPDATE Notes SET status = ? WHERE note_id = ?
UpdateStatus(notes, id, status) ==
    [i \in 1..Len(notes) |->
        IF notes[i].note_id = id THEN [notes[i] EXCEPT !.status = status] ELSE notes[i]]

\* fault variant: a save that keeps a file already stored under the name
SaveFile_KeepExisting(files, name, content) ==
    [n \in DOMAIN files \cup {name} |-> IF n \in DOMAIN files THEN files[n] ELSE content]

\* file.save(file_path)
SaveFile(files, name, content) ==
    [n \in DOMAIN files \cup {name} |-> IF n = name THEN content ELSE files[n]]

\* f"/uploads/{filename}"
DownloadUrl(filename) == <<"/">> \o UPLOAD_FOLDER \o <<"/">> \o filename


\* ------------------------------------------------------------------ Init
Idle == [pc |-> "idle"]
Threads == {1, 2}

\* rows in the store, and handlers that have yet to run their INSERT; a
\* handler goes on to insert only while the store has room for its row
Rows == Len(Users) + Len(Notes) + Len(Transactions)
InFlight == Cardinality({t \in Threads : thr[t].pc # "idle"})
HasRoom == Rows + InFlight < MaxRows

Init ==
    /\ Users = <<>>
    /\ Notes = <<>>
    /\ Transactions = <<>>
    /\ Files = <<>>
    /\ uploaded = <<>>
    /\ resp = Response("none", <<>>, 0, <<>>)
    /\ thr = [t \in Threads |-> Idle]

\* ------------------------------------------------------ request payloads
RegisterData ==
    {[name |-> "n", email |-> k[1], password |-> "pw", role |-> k[2]] : k \in RegKinds}
        \cup {[name |-> "n"]}

LoginData ==
    {[email |-> e, password |-> p] : e \in Emails, p \in Passwords} \cup {[email |-> "s@x.com"]}

UploadData ==
    {[title |-> "t", subject |-> "s", price |-> k.price, seller_id |-> s,
      note_file |-> [filename |-> k.filename, content |-> k.content]] :
        k \in UploadKinds, s \in UserIdInputs}
        \cup {[title |-> "t", subject |-> "s", price |-> 5, seller_id |-> 1]}
        \cup {[title |-> "t", note_file |-> [filename |-> <<"a">>, content |-> "x"]]}

PurchaseData ==
    {[buyer_id |-> b, note_id |-> n] : b \in UserIdInputs, n \in NoteIdInputs}
        \cup {[buyer_id |-> 1]}

\* ------------------------------------------------------------- handlers
register(data) ==
    /\ IF ~HasAll(data, {"name", "email", "password", "role"})
       THEN /\ resp' = Response("register", Fields(data, {"email"}), 400, <<>>)
            /\ UNCHANGED Users
       ELSE IF One(UsersByEmail(Users, data.email)) # NoneRow
       THEN /\ resp' = Response("register", Fields(data, {"email"}), 409, <<>>)
            /\ UNCHANGED Users
       ELSE /\ HasRoom
            /\ Users' = InsertUser(Users, data.name, data.email,
                                   generate_password_hash(data.password), data.role)
            /\ resp' = Response("register", Fields(data, {"email"}), 201, <<>>)
    /\ UNCHANGED <<Notes, Transactions, Files, uploaded, thr>>

login(data) ==
    /\ IF ~HasAll(data, {"email", "password"})
       THEN resp' = Response("login", Fields(data, {"email"}), 400, <<>>)
       ELSE LET user == One(UsersByEmail(Users, data.email)) IN
            IF user = NoneRow \/ ~check_password_hash(user.password, data.password)
            THEN resp' = Response("login", Fields(data, {"email"}), 401, <<>>)
            ELSE resp' = Response("login", Fields(data, {"email"}), 200,
                                  <<[user_id |-> user.user_id, name |-> user.name,
                                     email |-> user.email, role |-> user.role]>>)
    /\ UNCHANGED <<Users, Notes, Transactions, Files, uploaded, thr>>

upload_note(data) ==
    /\ IF ~HasAll(data, {"title", "subject", "price", "seller_id"})
       THEN /\ resp' = Response("upload", Fields(data, {"seller_id"}), 400, <<>>)
            /\ UNCHANGED <<Notes, Files, uploaded>>
       ELSE IF "note_file" \notin DOMAIN data
       THEN /\ resp' = Response("upload", Fields(data, {"seller_id"}), 400, <<>>)
            /\ UNCHANGED <<Notes, Files, uploaded>>
       ELSE IF data.note_file.filename = <<>>
       THEN /\ resp' = Response("upload", Fields(data, {"seller_id"}), 400, <<>>)
            /\ UNCHANGED <<Notes, Files, uploaded>>
       ELSE IF One(SellersById(Users, data.seller_id)) = NoneRow
       THEN /\ resp' = Response("upload", Fields(data, {"seller_id"}), 404, <<>>)
            /\ UNCHANGED <<Notes, Files, uploaded>>
       ELSE \* "if file:" holds here, the file name being non-empty
            LET filename == secure_filename(data.note_file.filename)
                file_path == os_path_join(UPLOAD_FOLDER, filename)
            IN IF filename = <<>>
               THEN \* file.save on the upload directory itself raises: HTTP 500
                    /\ resp' = Response("upload", Fields(data, {"seller_id"}), 500, <<>>)
                    /\ UNCHANGED <<Notes, Files, uploaded>>
               ELSE /\ HasRoom
                    /\ Files' = SaveFile(Files, filename, data.note_file.content)
                    /\ Notes' = InsertNote(Notes, data.title, data.subject, "",
                                           data.price, data.seller_id, file_path)
                    /\ uploaded' = Append(uploaded, data.note_file.content)
                    /\ resp' = Response("upload", Fields(data, {"seller_id"}), 201, <<>>)
    /\ UNCHANGED <<Users, Transactions, thr>>

browse_notes ==
    /\ resp' = Response("browse", <<>>, 200, ApprovedNotes(Notes))
    /\ UNCHANGED <<Users, Notes, Transactions, Files, uploaded, thr>>

purchase_note(data) ==
    /\ IF ~HasAll(data, {"buyer_id", "note_id"})
       THEN /\ resp' = Response("purchase", data, 400, <<>>)
            /\ UNCHANGED Transactions
       ELSE LET note_to_buy == One(NoteToBuy(Notes, data.note_id)) IN
            IF note_to_buy = NoneRow
            THEN /\ resp' = Response("purchase", data, 404, <<>>)
                 /\ UNCHANGED Transactions
            ELSE /\ HasRoom
                 /\ Transactions' = InsertTransaction(Transactions, data.buyer_id,
                                                      data.note_id, note_to_buy.price)
                 /\ resp' = Response("purchase", data, 200,
                                     DownloadUrl(os_path_basename(note_to_buy.file_link)))
    /\ UNCHANGED <<Users, Notes, Files, uploaded, thr>>

download_file(filename) ==
    /\ IF filename \in DOMAIN Files
       THEN resp' = Response("download", filename, 200, <<Files[filename]>>)
       ELSE resp' = Response("download", filename, 404, <<>>)
    /\ UNCHANGED <<Users, Notes, Transactions, Files, uploaded, thr>>

get_pending_notes ==
    /\ resp' = Response("pending", <<>>, 200, PendingNotes(Notes))
    /\ UNCHANGED <<Users, Notes, Transactions, Files, uploaded, thr>>

approve_note(note_id) ==
    /\ Notes' = UpdateStatus(Notes, note_id, "approved")
    /\ resp' = Response("approve", note_id, 200, <<>>)
    /\ UNCHANGED <<Users, Transactions, Files, uploaded, thr>>

reject_note(note_id) ==
    /\ Notes' = UpdateStatus(Notes, note_id, "rejected")
    /\ resp' = Response("reject", note_id, 200, <<>>)
    /\ UNCHANGED <<Users, Transactions, Files, uploaded, thr>>

Next ==
    \/ \E data \in RegisterData : register(data)
    \/ \E data \in LoginData : login(data)
    \/ \E data \in UploadData : upload_note(data)
    \/ browse_notes
    \/ \E data \in PurchaseData : purchase_note(data)
    \/ \E filename \in DownloadNames : download_file(filename)
    \/ get_pending_notes
    \/ \E note_id \in NoteIdInputs : approve_note(note_id)
    \/ \E note_id \in NoteIdInputs : reject_note(note_id)

Spec == Init /\ [][Next]_vars

\* ------------------------------------------------- concurrent handlers
\* The server handles each request on its own thread; a handler's query_db
\* and execute_db calls each open a connection, run one statement and close
\* it, so a handler with two statements is two steps of the store.  thr[t]
\* is the position and the locals of the handler running on thread t.
\* a new request is handed to the first idle thread
Free(t) == thr[t].pc = "idle" /\ \A u \in Threads : u < t => thr[u].pc # "idle"

\* register: lines 47-55, up to the SELECT and the hashing
register_query(t, data) ==
    /\ Free(t)
    /\ IF ~HasAll(data, {"name", "email", "password", "role"})
       THEN /\ resp' = Response("register", Fields(data, {"email"}), 400, <<>>)
            /\ UNCHANGED thr
       ELSE IF One(UsersByEmail(Users, data.email)) # NoneRow
       THEN /\ resp' = Response("register", Fields(data, {"email"}), 409, <<>>)
            /\ UNCHANGED thr
       ELSE /\ HasRoom
            /\ thr' = [thr EXCEPT ![t] =
                         [pc |-> "register_insert", data |-> data,
                          hashed_password |-> generate_password_hash(data.password)]]
            /\ UNCHANGED resp
    /\ UNCHANGED <<Users, Notes, Transactions, Files, uploaded>>

\* register: lines 57-60, the INSERT and the reply
\* The Users table is created outside this file.  If it declares email
\* UNIQUE, an INSERT of an email already stored raises and the request ends
\* with HTTP 500; if it does not, the row is added.  Both are allowed here.
register_insert(t) ==
    /\ thr[t].pc = "register_insert"
    /\ \/ /\ Users' = InsertUser(Users, thr[t].data.name, thr[t].data.email,
                                  thr[t].hashed_password, thr[t].data.role)
          /\ resp' = Response("register", Fields(thr[t].data, {"email"}), 201, <<>>)
       \/ /\ One(UsersByEmail(Users, thr[t].data.email)) # NoneRow
          /\ resp' = Response("register", Fields(thr[t].data, {"email"}), 500, <<>>)
          /\ UNCHANGED Users
    /\ thr' = [thr EXCEPT ![t] = Idle]
    /\ UNCHANGED <<Notes, Transactions, Files, uploaded>>

\* purchase_note: lines 123-129, up to the availability SELECT
purchase_query(t, data) ==
    /\ Free(t)
    /\ IF ~HasAll(data, {"buyer_id", "note_id"})
       THEN /\ resp' = Response("purchase", data, 400, <<>>)
            /\ UNCHANGED thr
       ELSE LET note_to_buy == One(NoteToBuy(Notes, data.note_id)) IN
            IF note_to_buy = NoneRow
            THEN /\ resp' = Response("purchase", data, 404, <<>>)
                 /\ UNCHANGED thr
            ELSE /\ HasRoom
                 /\ thr' = [thr EXCEPT ![t] =
                              [pc |-> "purchase_insert", data |-> data,
                               note_to_buy |-> note_to_buy]]
                 /\ UNCHANGED resp
    /\ UNCHANGED <<Users, Notes, Transactions, Files, uploaded>>

\* fault variant: the INSERT guarded by a second look at the note's status
purchase_insert_Rechecks(t) ==
    /\ thr[t].pc = "purchase_insert"
    /\ IF One(NoteToBuy(Notes, thr[t].data.note_id)) = NoneRow
       THEN /\ resp' = Response("purchase", thr[t].data, 404, <<>>)
            /\ UNCHANGED Transactions
       ELSE /\ Transactions' = InsertTransaction(Transactions, thr[t].data.buyer_id,
                                                 thr[t].data.note_id,
                                                 thr[t].note_to_buy.price)
            /\ resp' = Response("purchase", thr[t].data, 200,
                                DownloadUrl(os_path_basename(thr[t].note_to_buy.file_link)))
    /\ thr' = [thr EXCEPT ![t] = Idle]
    /\ UNCHANGED <<Users, Notes, Files, uploaded>>

\* purchase_note: lines 131-137, the INSERT and the reply
purchase_insert(t) ==
    /\ thr[t].pc = "purchase_insert"
    /\ Transactions' = InsertTransaction(Transactions, thr[t].data.buyer_id,
                                         thr[t].data.note_id, thr[t].note_to_buy.price)
    /\ resp' = Response("purchase", thr[t].data, 200,
                        DownloadUrl(os_path_basename(thr[t].note_to_buy.file_link)))
    /\ thr' = [thr EXCEPT ![t] = Idle]
    /\ UNCHANGED <<Users, Notes, Files, uploaded>>

\* approve_note and reject_note are one statement each.  upload_note's
\* statements read Users, which no handler changes or removes rows of, and
\* write the upload directory and Notes, which register and purchase_note do
\* not write; it runs here as one step, as do the two moderation handlers.
\* The handlers that only read (login, browse_notes, get_pending_notes,
\* download_file) change nothing in the store and are left out.
NextC ==
    \/ \E t \in Threads, data \in RegisterData : register_query(t, data)
    \/ \E t \in Threads : register_insert(t)
    \/ \E data \in UploadData : upload_note(data)
    \/ \E t \in Threads, data \in PurchaseData : purchase_query(t, data)
    \/ \E t \in Threads : purchase_insert(t)
    \/ \E note_id \in NoteIdInputs : approve_note(note_id)
    \/ \E note_id \in NoteIdInputs : reject_note(note_id)

SpecC == Init /\ [][NextC]_vars

\* ================================================================ properties
NoteIds(notes) == {notes[i].note_id : i \in 1..Len(notes)}
NoteById(notes, id) == CHOOSE n \in {notes[i] : i \in 1..Len(notes)} : n.note_id = id
ApprovedIds(notes) == {notes[i].note_id : i \in {j \in 1..Len(notes) : notes[j].status = "approved"}}
RowIds(rows) == {rows[i].note_id : i \in 1..Len(rows)}
IsSeller(users, id) ==
    \E i \in 1..Len(users) : users[i].user_id = id /\ users[i].role = "seller"
IsUser(users, id) == \E i \in 1..Len(users) : users[i].user_id = id

\* C1: once a note is rejected, it is never again in the result of browse_notes
\* (stated step by step: a rejected note is not in the browse result of the
\* next state, whatever handler ran).
C1_RejectedStaysHidden ==
    [][\A i \in 1..Len(Notes) :
          Notes[i].status = "rejected"
              => Notes[i].note_id \notin RowIds(ApprovedNotes(Notes'))]_vars

\* C2: a purchase of a note that is missing, pending or rejected replies 404
\* and leaves Transactions unchanged; a purchase of an approved note replies
\* 200 and appends exactly one row (buyer_id, note_id, amount) with the
\* note's price as amount, whatever rows are there already.
C2_PurchaseEffect ==
    [][(resp'.op = "purchase" /\ HasAll(resp'.req, {"buyer_id", "note_id"}))
          => IF resp'.req.note_id \in ApprovedIds(Notes)
             THEN /\ resp'.code = 200
                  /\ Transactions' =
                        Append(Transactions,
                               [buyer_id |-> resp'.req.buyer_id,
                                note_id |-> resp'.req.note_id,
                                amount |-> NoteById(Notes, resp'.req.note_id).price])
             ELSE /\ resp'.code = 404
                  /\ Transactions' = Transactions]_vars

C2_Witness ==
    /\ resp.op = "purchase"
    /\ resp.code = 200
    /\ Len(Transactions) = 2
    /\ Transactions[1] = Transactions[2]

\* C3: for every interleaving of the register handlers' SELECT and INSERT
\* steps, no two Users rows share an email, and a register request with all
\* its fields is answered 201 (the first for its email) or 409 (a later one).
C3_RegisterOncePerEmail ==
    /\ \A i, j \in 1..Len(Users) : i # j => Users[i].email # Users[j].email
    /\ (resp.op = "register" /\ "email" \in DOMAIN resp.req) => resp.code \in {201, 409}

\* C4: browse_notes returns exactly the notes whose status is approved, and a
\* note enters the browse result only by an approve_note call for its id.
C4_BrowseIsApproved ==
    [][/\ resp'.op = "browse" => RowIds(resp'.body) = ApprovedIds(Notes')
       /\ \A id \in RowIds(ApprovedNotes(Notes')) \ RowIds(ApprovedNotes(Notes)) :
             resp'.op = "approve" /\ resp'.req = id]_vars

C4_Witness ==
    /\ resp.op = "browse"
    /\ Len(resp.body) = 1
    /\ \E i \in 1..Len(Notes) : Notes[i].status = "pending"

C6_ModerateMissingIsNoOp ==
    [][(resp'.op \in {"approve", "reject"} /\ resp'.req \notin NoteIds(Notes))
          => /\ resp'.code = 200
             /\ UNCHANGED <<Users, Notes, Transactions>>]_vars

C6_Witness ==
    /\ resp.op \in {"approve", "reject"}
    /\ resp.code = 200
    /\ resp.req \notin NoteIds(Notes)
    /\ Len(Notes) > 0
    /\ Len(Transactions) > 0

\* the notes that were bought and whose download link names this file
BoughtWithLink(filename) ==
    {n \in {NoteById(Notes, Transactions[i].note_id) : i \in 1..Len(Transactions)} :
        DownloadUrl(os_path_basename(n.file_link)) = DownloadUrl(filename)}

\* the last note uploaded under the same stored file as note n
LastWithSameFile(n) ==
    LET same == {i \in 1..Len(Notes) : Notes[i].file_link = n.file_link}
    IN Notes[CHOOSE i \in same : \A j \in same : j <= i]

\* C7 as stated: a download of the link a purchase returned yields the bytes
\* uploaded with the purchased note.
C7_DownloadYieldsOwnBytes ==
    resp.op = "download" =>
        \A n \in BoughtWithLink(resp.req) :
            resp.code = 200 /\ resp.body = <<uploaded[n.note_id]>>

\* C7 as amended: a download of the link a purchase returned yields the bytes
\* of the last upload stored under the purchased note's sanitised file name.
C7_DownloadYieldsLastUpload ==
    resp.op = "download" =>
        \A n \in BoughtWithLink(resp.req) :
            resp.code = 200 /\ resp.body = <<uploaded[LastWithSameFile(n).note_id]>>

C7_Witness ==
    /\ resp.op = "download"
    /\ resp.code = 200
    /\ \E n \in BoughtWithLink(resp.req) :
          /\ LastWithSameFile(n) # n
          /\ resp.body # <<uploaded[n.note_id]>>

\* C8: a purchase that has read the note as approved inserts its row and
\* replies 200 whatever the note's status is by then, and no step removes or
\* changes a Transactions row.
C8_PurchaseInsertUnguarded ==
    [][/\ \A t \in Threads :
             (thr[t].pc = "purchase_insert" /\ thr'[t].pc = "idle")
                 => /\ Transactions' =
                          Append(Transactions,
                                 [buyer_id |-> thr[t].data.buyer_id,
                                  note_id |-> thr[t].data.note_id,
                                  amount |-> thr[t].note_to_buy.price])
                    /\ resp'.op = "purchase"
                    /\ resp'.code = 200
       /\ Len(Transactions') >= Len(Transactions)
       /\ SubSeq(Transactions', 1, Len(Transactions)) = Transactions]_vars

C8_Witness ==
    /\ resp.op = "purchase"
    /\ resp.code = 200
    /\ Len(Transactions) > 0
    /\ Transactions[Len(Transactions)].note_id = resp.req.note_id
    /\ NoteById(Notes, resp.req.note_id).status = "rejected"

\* C9: every Transactions row's buyer_id is the user_id of a Users row.
C9_BuyerIsUser ==
    \A i \in 1..Len(Transactions) : IsUser(Users, Transactions[i].buyer_id)

\* C10: a Note row changes only by approve_note or reject_note for its id, and
\* then only in its status, which becomes approved or rejected whatever it
\* was; no handler removes a Note or sets a status to pending.
C10_OnlyModerationChangesNotes ==
    [][/\ Len(Notes') >= Len(Notes)
       /\ \A i \in 1..Len(Notes) :
             \/ Notes'[i] = Notes[i]
             \/ /\ resp'.op = "approve"
                /\ resp'.req = Notes[i].note_id
                /\ Notes'[i] = [Notes[i] EXCEPT !.status = "approved"]
             \/ /\ resp'.op = "reject"
                /\ resp'.req = Notes[i].note_id
                /\ Notes'[i] = [Notes[i] EXCEPT !.status = "rejected"]
       /\ \A i \in 1..Len(Notes) :
             /\ (resp'.op = "approve" /\ resp'.req = Notes[i].note_id)
                    => Notes'[i].status = "approved"
             /\ (resp'.op = "reject" /\ resp'.req = Notes[i].note_id)
                    => Notes'[i].status = "rejected"]_vars

C10_Witness ==
    /\ resp.op = "reject"
    /\ Len(Notes) = 2
    /\ resp.req \in NoteIds(Notes)
    /\ NoteById(Notes, resp.req).status = "rejected"
    /\ \E i \in 1..Len(Transactions) : Transactions[i].note_id = resp.req
    /\ \E i \in 1..Len(Notes) : Notes[i].status = "approved"

====
